---- MODULE Spec2Model ----
(***************************************************************************)
(* Provider wrappers of aisuite-js: GroqProvider and MistralProvider with  *)
(* their adapters, and the streaming path of OpenAIProvider as far as its  *)
(* tests determine it.  One behaviour follows calls made on provider       *)
(* instances: chatCompletion (an async function) and streamChatCompletion  *)
(* (an async generator), the vendor transport they talk to, the consumer   *)
(* that advances the generator and the caller's AbortSignal.               *)
(***************************************************************************)
EXTENDS Integers, Sequences, FiniteSets, TLC

\* ------------------------------------------------------------------ bounds
\* Longest vendor stream (native events pulled from one vendor stream).
MaxEvents == 3

\* The consumer calls next() at most this often on one generator.
MaxAdvances == MaxEvents + 2

\* ------------------------------------------------------- JavaScript values
Undefined == "undefined"
Null == "null"

\* Call slots; a behaviour of Spec uses the first one.
Calls == {"c1", "c2"}
FirstCall == "c1"

\* Providers whose implementation is part of the sources, and all providers.
CodeProviders == {"groq", "mistral"}
AllProviders == {"groq", "mistral", "openai"}

\* Vendor display name used in error messages.
VendorName(p) ==
  CASE p = "groq" -> "Groq"
    [] p = "mistral" -> "Mistral"
    [] p = "anthropic" -> "Anthropic"
    [] OTHER -> "OpenAI"

\* A thrown JavaScript value.  class is the constructor ("string" and
\* "object" are values that are not instances of Error), oid the object
\* identity (allocation number).
Thrown(class, message, provider, code, oid) ==
  [class |-> class, message |-> message, provider |-> provider,
   code |-> code, oid |-> oid]

NoError == Thrown("none", "", "", "", 0)

InstanceOfError(e) == e.class \in {"Error", "TypeError", "AISuiteError"}

InstanceOfAISuiteError(e) == e.class = "AISuiteError"

\* new AISuiteError(message, provider, code), allocated at oid.
AISuiteError(message, provider, code, oid) ==
  Thrown("AISuiteError", message, provider, code, oid)

\* What a vendor transport may throw or reject with, allocated at oid:
\* a plain Error, a bare string, an object that merely has a message
\* property, and canonical errors made elsewhere.
VendorThrowables(oid) ==
  { Thrown("Error", "API rate limit exceeded", "", "", oid),
    Thrown("string", "", "", "", oid),
    Thrown("object", "not an Error", "", "", oid),
    Thrown("AISuiteError", "Custom error", "groq", "CUSTOM_ERROR", oid),
    Thrown("AISuiteError", "Custom error", "mistral", "CUSTOM_ERROR", oid) }

\* ---------------------------------------------------------------- requests
Models == {"llama3-8b-8192", "groq:llama3"}

Messages == << [role |-> "user", content |-> "Hello", tool_calls |-> Undefined] >>

\* tools is an opaque token: undefined, an empty array or a non-empty array.
\* temperature and top_p are in tenths.
NonEmptyToolArrays == {"[get_weather]"}

ChatCompletionRequest(model, stream) ==
  [model |-> model, messages |-> Messages, temperature |-> 7,
   max_tokens |-> 100, top_p |-> 9, stream |-> stream,
   tools |-> "[]", tool_choice |-> Undefined]

\* request.stream is the token "true" or undefined.
Requests == { ChatCompletionRequest(m, s) : m \in Models, s \in {"true", Undefined} }

\* JavaScript truthiness of an optional flag.
Truthy(v) == v \notin {Undefined, Null, "false"}

\* RequestOptions: the caller's AbortSignal, absent, not yet aborted or
\* already aborted when the call is made.
Signals == {"none", "active", "aborted"}

\* String.prototype.replace("groq:", ""): removes the first occurrence.
ReplaceGroqPrefix(model) ==
  CASE model = "groq:llama3" -> "llama3"
    [] OTHER -> model

GroqAdaptRequest(request) ==
  [model |-> ReplaceGroqPrefix(request.model),
   messages |-> request.messages,
   temperature |-> request.temperature,
   max_tokens |-> request.max_tokens,
   stream |-> request.stream,
   tools |-> request.tools,
   tool_choice |-> request.tool_choice]

MistralAdaptMessage(message) ==
  [role |-> message.role, content |-> message.content,
   tool_calls |-> message.tool_calls]

MistralAdaptRequest(request) ==
  [model |-> request.model,
   messages |-> [i \in DOMAIN request.messages |->
                   MistralAdaptMessage(request.messages[i])],
   tools |-> IF request.tools \in NonEmptyToolArrays
             THEN request.tools ELSE Undefined,
   temperature |-> request.temperature,
   max_tokens |-> request.max_tokens,
   top_p |-> request.top_p,
   stream |-> request.stream]

\* OpenAIProvider's streaming call as its test fixes it: the canonical
\* request with stream: true.
OpenAIStreamRequest(request) == [request EXCEPT !.stream = "true"]

AdaptRequest(p, request) ==
  CASE p = "groq" -> GroqAdaptRequest(request)
    [] p = "mistral" -> MistralAdaptRequest(request)
    [] OTHER -> OpenAIStreamRequest(request)

\* ------------------------------------------------- native vendor responses
Usage(prompt, completion) ==
  [prompt_tokens |-> prompt, completion_tokens |-> completion,
   total_tokens |-> prompt + completion]

ZeroUsage == [prompt_tokens |-> 0, completion_tokens |-> 0, total_tokens |-> 0]

\* hasUsage says whether the vendor sent a usage object; the usage field is
\* read only when it did.
NativeResponse(nchoices, hasUsage) ==
  [id |-> "chatcmpl-123", object |-> "chat.completion", created |-> 1234567890,
   model |-> "llama3-8b-8192",
   choices |-> [i \in 1..nchoices |->
                  [index |-> i - 1,
                   message |-> [role |-> "assistant",
                                content |-> "Hello! How can I help you?",
                                tool_calls |-> Undefined],
                   finish_reason |-> "stop"]],
   hasUsage |-> hasUsage,
   usage |-> IF hasUsage THEN Usage(10, 20) ELSE ZeroUsage]

\* A response whose finish reason is a word of the vendor's own vocabulary
\* (Mistral's "model_length").
NativeResponseVendorFinish ==
  [NativeResponse(1, TRUE) EXCEPT !.choices[1].finish_reason = "model_length"]

\* A response whose message carries tool calls (an opaque token for the
\* array of calls) and no content.
NativeResponseToolCalls ==
  [NativeResponse(1, TRUE) EXCEPT
     !.choices[1].message = [role |-> "assistant", content |-> Null,
                             tool_calls |-> "[call_1]"],
     !.choices[1].finish_reason = "tool_calls"]

NativeResponses ==
  { NativeResponse(n, u) : n \in {0, 1}, u \in BOOLEAN }
    \cup { NativeResponseVendorFinish, NativeResponseToolCalls }

\* Result of an adapter: the value it returns, or the TypeError it throws
\* when it reads a property of undefined.
Returned(value) == [threw |-> FALSE, value |-> value, message |-> ""]

ThrewTypeError(property) ==
  [threw |-> TRUE, value |-> Undefined,
   message |-> "Cannot read properties of undefined (reading '" \o property \o "')"]

GroqAdaptResponse(response) ==
  Returned(
    [id |-> response.id,
     object |-> response.object,
     created |-> response.created,
     model |-> "groq:" \o response.model,
     choices |-> [i \in DOMAIN response.choices |->
                    [index |-> response.choices[i].index,
                     message |-> response.choices[i].message,
                     finish_reason |-> response.choices[i].finish_reason]],
     usage |-> IF response.hasUsage THEN response.usage ELSE ZeroUsage])

\* now is Date.now() in milliseconds.
MistralAdaptResponse(response, now) ==
  IF Len(response.choices) = 0 THEN ThrewTypeError("message")
  ELSE IF ~response.hasUsage THEN ThrewTypeError("prompt_tokens")
  ELSE Returned(
    [id |-> response.id,
     object |-> "chat.completion",
     created |-> now \div 1000,
     model |-> response.model,
     choices |-> << [index |-> 0,
                     message |-> [role |-> "assistant",
                                  content |-> response.choices[1].message.content],
                     finish_reason |-> response.choices[1].finish_reason] >>,
     usage |-> [prompt_tokens |-> response.usage.prompt_tokens,
                completion_tokens |-> response.usage.completion_tokens,
                total_tokens |-> response.usage.total_tokens]])

AdaptResponse(p, response, now) ==
  CASE p = "groq" -> GroqAdaptResponse(response)
    [] OTHER -> MistralAdaptResponse(response, now)

\* ---------------------------------------------------- native stream events
Delta(role, content) == [role |-> role, content |-> content, tool_calls |-> Undefined]

NativeChunk(id, choices) ==
  [id |-> id, object |-> "chat.completion.chunk", created |-> 1234567890,
   model |-> "llama3-8b-8192", choices |-> choices]

\* The events of the provider tests (a first event with a role, a later one
\* without, under two native ids), an event with an empty choices list and
\* an event whose finish reason is a word of the vendor's own vocabulary.
NativeEvents ==
  { NativeChunk("chatcmpl-123",
      << [index |-> 0, delta |-> Delta("assistant", "Hello"),
          finish_reason |-> Null] >>),
    NativeChunk("chatcmpl-456",
      << [index |-> 0, delta |-> Delta(Undefined, "! How can I help?"),
          finish_reason |-> "stop"] >>),
    NativeChunk("chatcmpl-123", << >>),
    NativeChunk("chatcmpl-456",
      << [index |-> 0, delta |-> Delta(Undefined, Undefined),
          finish_reason |-> "model_length"] >>) }

\* Mutant: the id of the native chunk instead of the stream's id.
GroqAdaptStreamResponseNativeId(chunk, streamId, now) ==
  Returned(
    [id |-> chunk.id,
     object |-> "chat.completion.chunk",
     created |-> now,
     model |-> "groq:" \o chunk.model,
     choices |-> [i \in DOMAIN chunk.choices |->
                    [index |-> chunk.choices[i].index,
                     delta |-> chunk.choices[i].delta,
                     finish_reason |-> chunk.choices[i].finish_reason]]])

GroqAdaptStreamResponse(chunk, streamId, now) ==
  Returned(
    [id |-> streamId,
     object |-> "chat.completion.chunk",
     created |-> now,
     model |-> "groq:" \o chunk.model,
     choices |-> [i \in DOMAIN chunk.choices |->
                    [index |-> chunk.choices[i].index,
                     delta |-> chunk.choices[i].delta,
                     finish_reason |-> chunk.choices[i].finish_reason]]])

\* Mutant: the content of the delta is not copied.
MistralAdaptStreamResponseNoContent(response, streamId, now) ==
  IF Len(response.choices) = 0 THEN ThrewTypeError("delta")
  ELSE Returned(
    [id |-> streamId,
     object |-> "chat.completion.chunk",
     created |-> now \div 1000,
     model |-> response.model,
     choices |-> << [index |-> 0,
                     delta |-> [role |-> "assistant",
                                content |-> Undefined,
                                tool_calls |-> response.choices[1].delta.tool_calls],
                     finish_reason |-> response.choices[1].finish_reason] >>])

MistralAdaptStreamResponse(response, streamId, now) ==
  IF Len(response.choices) = 0 THEN ThrewTypeError("delta")
  ELSE Returned(
    [id |-> streamId,
     object |-> "chat.completion.chunk",
     created |-> now \div 1000,
     model |-> response.model,
     choices |-> << [index |-> 0,
                     delta |-> [role |-> "assistant",
                                content |-> response.choices[1].delta.content,
                                tool_calls |-> response.choices[1].delta.tool_calls],
                     finish_reason |-> response.choices[1].finish_reason] >>])

\* OpenAIProvider's chunk adapter as its streaming test fixes it: the chunk
\* yielded for a native chunk carries that native chunk's id.
OpenAIAdaptChunk(chunk) ==
  Returned(
    [id |-> chunk.id,
     object |-> "chat.completion.chunk",
     created |-> chunk.created,
     model |-> chunk.model,
     choices |-> chunk.choices])

AdaptStreamResponse(p, chunk, streamId, now) ==
  CASE p = "groq" -> GroqAdaptStreamResponse(chunk, streamId, now)
    [] p = "mistral" -> MistralAdaptStreamResponse(chunk, streamId, now)
    [] OTHER -> OpenAIAdaptChunk(chunk)

\* ------------------------------------------------------- utils/streaming
\* generateId(): a fresh "chatcmpl-" id of nine characters on every call;
\* n is the number of ids generated before.
GenIds == << "chatcmpl-k3j9x0a1b", "chatcmpl-z8y7w6v5u", "chatcmpl-q1w2e3r4t" >>

generateId(n) == GenIds[n + 1]

\* ----------------------------------------------------------- error paths
StreamingNotSupported(p, oid) ==
  AISuiteError("Streaming is not supported in non-streaming method. Set stream: false or use streamChatCompletion method.",
               p, "STREAMING_NOT_SUPPORTED", oid)

\* Mutant: the guard tests the flag the wrong way round.
StreamRequestedInverted(request) == ~Truthy(request.stream)

\* if (request.stream) of chatCompletion.
StreamRequested(request) == Truthy(request.stream)

\* error instanceof Error ? error.message : "Unknown error"
MessageOrUnknown(error) ==
  IF InstanceOfError(error) THEN error.message ELSE "Unknown error"

\* Mutant: the message of whatever was caught, without the instanceof test.
ChatCatchRawMessage(p, error, oid) ==
  IF InstanceOfAISuiteError(error) THEN error
  ELSE AISuiteError(VendorName(p) \o " API error: " \o error.message,
                    p, "API_ERROR", oid)

\* Mutant: every caught error is wrapped, canonical ones included.
ChatCatchAlwaysWrap(p, error, oid) ==
  AISuiteError(VendorName(p) \o " API error: " \o MessageOrUnknown(error),
               p, "API_ERROR", oid)

\* The catch block of chatCompletion: what it throws for a caught error;
\* oid is the allocation number of a new error object.
ChatCatch(p, error, oid) ==
  IF InstanceOfAISuiteError(error) THEN error
  ELSE AISuiteError(VendorName(p) \o " API error: " \o MessageOrUnknown(error),
                    p, "API_ERROR", oid)

\* Mutant: the catch block of the non-streaming method, which rethrows a
\* canonical error, copied into the streaming method.
StreamCatchRethrowing(p, error, oid) ==
  IF InstanceOfAISuiteError(error) THEN error
  ELSE AISuiteError(VendorName(p) \o " streaming error: " \o MessageOrUnknown(error),
                    p, "STREAMING_ERROR", oid)

\* The catch block of streamChatCompletion.
StreamCatch(p, error, oid) ==
  AISuiteError(VendorName(p) \o " streaming error: " \o MessageOrUnknown(error),
               p, "STREAMING_ERROR", oid)

\* ------------------------------------------------------------------ state
VARIABLES
  providers,        \* provider instances that exist
  clock,            \* Date.now(), milliseconds
  heap,             \* number of error objects allocated so far
  generated,        \* number of generateId() calls so far
  callee,           \* per call: the provider instance called
  pc,               \* per call: position of the async function / generator
  request,          \* per call: the request argument
  signal,           \* per call: options.signal ("none" when absent)
  listener,         \* per call: an abort listener is registered on the signal
  stream,           \* per call: the vendor stream the streaming call resolved with
  controllerAborts, \* per call: invocations of stream.controller.abort()
  vendorCalls,      \* per call: arguments of the vendor transport calls
  adaptCalls,       \* per call: number of adapter function calls
  streamId,         \* per call: const streamId
  events,           \* per call: native events pulled from the vendor stream
  caught,           \* per call: the value that reached the catch block
  advances,         \* per call: number of next() calls of the consumer
  delivered,        \* per call: settlements handed to the caller, in order
  completion,       \* per call: const completion, the native response
  config,           \* the ProviderConfigs given to new Client(...), its keys in order
  registry,         \* Client: the registered vendor keys, in insertion order
  invocations,      \* per call: provider methods the Client invoked, with arguments
  clientResult,     \* per call: what chat.completions.create settled with
  created,          \* Client: number of chat.completions.create calls so far
  received,         \* per call: the arguments of chat.completions.create
  abandoned,        \* per call: the consumer called return() on the sequence
  vendorReturns     \* per call: return() calls on the vendor stream's iterator

\* The state of the Client.
\* What an early return of the consumer changes.
returnVars == << abandoned, vendorReturns >>

clientVars == << config, registry, invocations, clientResult, created, received >>

vars == << providers, clock, heap, generated, callee, pc, request, signal,
           listener, stream, controllerAborts, vendorCalls, adaptCalls,
           streamId, events, caught, advances, delivered, completion,
           config, registry, invocations, clientResult, created, received,
           abandoned, vendorReturns >>

Times == {1999, 2000}

\* A settlement that carries no value (value: undefined), as an object so
\* that it compares with responses and chunks.
NoValue == [object |-> Undefined]

\* Settlements: what the promise of chatCompletion or of one next() settles with.
Resolved(value) == [type |-> "resolved", value |-> value, error |-> NoError]
Rejected(error) == [type |-> "rejected", value |-> NoValue, error |-> error]
Yielded(chunk) == [type |-> "chunk", value |-> chunk, error |-> NoError]
Done == [type |-> "done", value |-> NoValue, error |-> NoError]

\* Vendor streams: with or without a controller.abort function.
Streams == {"withController", "plain"}

\* No settlement yet.
Pending == [type |-> "pending", value |-> NoValue, error |-> NoError]

\* The arguments of a create call: the model string as its segments
\* between separators, the stream flag and options.signal.
Arguments(segs, flag, sig) == [model |-> segs, stream |-> flag, options |-> sig]

NoArguments == Arguments(<< >>, Undefined, "none")

\* No native response received.
NoCompletion == [id |-> "none", object |-> "none", created |-> 0, model |-> "none",
                 choices |-> << >>, hasUsage |-> FALSE, usage |-> ZeroUsage]

\* The provider-side state before any call.
InitCalls ==
  /\ clock \in Times
  /\ heap = 0
  /\ generated = 0
  /\ callee = [c \in Calls |-> "none"]
  /\ pc = [c \in Calls |-> "idle"]
  /\ request = [c \in Calls |-> ChatCompletionRequest("none", Undefined)]
  /\ signal = [c \in Calls |-> "none"]
  /\ listener = [c \in Calls |-> FALSE]
  /\ stream = [c \in Calls |-> "none"]
  /\ controllerAborts = [c \in Calls |-> 0]
  /\ vendorCalls = [c \in Calls |-> << >>]
  /\ adaptCalls = [c \in Calls |-> 0]
  /\ streamId = [c \in Calls |-> Undefined]
  /\ events = [c \in Calls |-> << >>]
  /\ caught = [c \in Calls |-> NoError]
  /\ advances = [c \in Calls |-> 0]
  /\ delivered = [c \in Calls |-> << >>]
  /\ completion = [c \in Calls |-> NoCompletion]
  /\ invocations = [c \in Calls |-> << >>]
  /\ clientResult = [c \in Calls |-> Pending]
  /\ received = [c \in Calls |-> NoArguments]
  /\ abandoned = [c \in Calls |-> FALSE]
  /\ vendorReturns = [c \in Calls |-> 0]

\* Provider instances ps constructed directly, without a Client.
InitWith(ps) ==
  /\ providers = ps
  /\ config = << >>
  /\ registry = << >>
  /\ created = 0
  /\ InitCalls

Init == InitWith(CodeProviders)

InitAll == InitWith(AllProviders)

\* ------------------------------------------------- chatCompletion (async)
\* The call itself: runs to the first await.  A request with stream set
\* throws inside the try block, so the catch block decides what is thrown.
ChatCompletion(c, p, req, sig) ==
  /\ pc[c] = "idle"
  /\ callee' = [callee EXCEPT ![c] = p]
  /\ request' = [request EXCEPT ![c] = req]
  /\ signal' = [signal EXCEPT ![c] = sig]
  /\ IF StreamRequested(req)
     THEN /\ caught' = [caught EXCEPT ![c] = StreamingNotSupported(p, heap + 1)]
          /\ delivered' = [delivered EXCEPT ![c] =
                 << Rejected(ChatCatch(p, StreamingNotSupported(p, heap + 1), heap + 2)) >>]
          /\ heap' = heap + 2
          /\ pc' = [pc EXCEPT ![c] = "settled"]
          /\ UNCHANGED << vendorCalls, adaptCalls >>
     ELSE /\ vendorCalls' = [vendorCalls EXCEPT ![c] =
                 << [request |-> AdaptRequest(p, req), options |-> Undefined] >>]
          /\ adaptCalls' = [adaptCalls EXCEPT ![c] = 1]
          /\ pc' = [pc EXCEPT ![c] = "chatAwait"]
          /\ UNCHANGED << caught, delivered, heap >>
  /\ UNCHANGED << returnVars, completion, providers, clock, generated, listener, stream,
                  controllerAborts, streamId, events, advances >>

\* The vendor transport resolves: return adaptResponse(completion).
ChatResolves(c, response) ==
  /\ pc[c] = "chatAwait"
  /\ completion' = [completion EXCEPT ![c] = response]
  /\ adaptCalls' = [adaptCalls EXCEPT ![c] = @ + 1]
  /\ LET r == AdaptResponse(callee[c], response, clock)
         e == Thrown("TypeError", r.message, "", "", heap + 1)
     IN IF r.threw
        THEN /\ caught' = [caught EXCEPT ![c] = e]
             /\ delivered' = [delivered EXCEPT ![c] =
                    << Rejected(ChatCatch(callee[c], e, heap + 2)) >>]
             /\ heap' = heap + 2
        ELSE /\ delivered' = [delivered EXCEPT ![c] = << Resolved(r.value) >>]
             /\ UNCHANGED << caught, heap >>
  /\ pc' = [pc EXCEPT ![c] = "settled"]
  /\ UNCHANGED << clientVars, returnVars, providers, clock, generated, callee, request, signal,
                  listener, stream, controllerAborts, vendorCalls, streamId,
                  events, advances >>

\* Mutant: a failed vendor call is issued once more.
ChatRejectsRetrying(c, e) ==
  /\ pc[c] = "chatAwait"
  /\ Len(vendorCalls[c]) < 2
  /\ vendorCalls' = [vendorCalls EXCEPT ![c] = Append(@, @[1])]
  /\ UNCHANGED << clientVars, returnVars, completion, providers, clock, heap, generated, callee, pc,
                  request, signal, listener, stream, controllerAborts,
                  adaptCalls, streamId, events, caught, advances, delivered >>

\* The vendor transport rejects with e.
ChatRejects(c, e) ==
  /\ pc[c] = "chatAwait"
  /\ caught' = [caught EXCEPT ![c] = e]
  /\ delivered' = [delivered EXCEPT ![c] =
         << Rejected(ChatCatch(callee[c], e, heap + 2)) >>]
  /\ heap' = heap + 2
  /\ pc' = [pc EXCEPT ![c] = "settled"]
  /\ UNCHANGED << clientVars, returnVars, completion, providers, clock, generated, callee, request, signal,
                  listener, stream, controllerAborts, vendorCalls, adaptCalls,
                  streamId, events, advances >>

\* ---------------------------------- streamChatCompletion (async generator)
\* Mutant: a plain function that issues the vendor call before returning
\* the sequence.
StreamChatCompletionEager(c, p, req, sig) ==
  /\ pc[c] = "idle"
  /\ callee' = [callee EXCEPT ![c] = p]
  /\ request' = [request EXCEPT ![c] = req]
  /\ signal' = [signal EXCEPT ![c] = sig]
  /\ vendorCalls' = [vendorCalls EXCEPT ![c] =
         << [request |-> AdaptRequest(p, req), options |-> Undefined] >>]
  /\ adaptCalls' = [adaptCalls EXCEPT ![c] = 1]
  /\ pc' = [pc EXCEPT ![c] = "suspendedStart"]
  /\ UNCHANGED << returnVars, completion, providers, clock, heap, generated, listener, stream,
                  controllerAborts, streamId, events, caught, advances,
                  delivered >>

\* Calling an async generator function only creates the generator object.
StreamChatCompletion(c, p, req, sig) ==
  /\ pc[c] = "idle"
  /\ callee' = [callee EXCEPT ![c] = p]
  /\ request' = [request EXCEPT ![c] = req]
  /\ signal' = [signal EXCEPT ![c] = sig]
  /\ pc' = [pc EXCEPT ![c] = "suspendedStart"]
  /\ UNCHANGED << returnVars, completion, providers, clock, heap, generated, listener, stream,
                  controllerAborts, vendorCalls, adaptCalls, streamId, events,
                  caught, advances, delivered >>

\* The options argument the provider hands to the vendor streaming call.
StreamCallOptions(p, sig) ==
  IF p \in CodeProviders THEN Undefined ELSE sig

\* Mutant: next() on a finished sequence runs the body again.
AdvanceRestarting(c) ==
  /\ pc[c] \in {"suspendedStart", "suspendedYield", "completed"}
  /\ advances[c] < MaxAdvances
  /\ advances' = [advances EXCEPT ![c] = @ + 1]
  /\ IF pc[c] = "suspendedYield"
     THEN /\ pc' = [pc EXCEPT ![c] = "awaitEvent"]
          /\ UNCHANGED << vendorCalls, adaptCalls >>
     ELSE /\ vendorCalls' = [vendorCalls EXCEPT ![c] = Append(@,
                 [request |-> AdaptRequest(callee[c], request[c]),
                  options |-> StreamCallOptions(callee[c], signal[c])])]
          /\ adaptCalls' = [adaptCalls EXCEPT ![c] = @ + 1]
          /\ pc' = [pc EXCEPT ![c] = "awaitCreate"]
  /\ UNCHANGED << clientVars, returnVars, completion, providers, clock, heap, generated,
                  callee, request, signal, listener, stream, controllerAborts,
                  streamId, events, caught, delivered >>

\* The consumer calls next().  From the start the body runs to
\* await create(...); from a yield it asks the vendor stream for the next
\* event; on a finished generator it reports done.
Advance(c) ==
  /\ pc[c] \in {"suspendedStart", "suspendedYield", "completed"}
  /\ advances[c] < MaxAdvances
  /\ advances' = [advances EXCEPT ![c] = @ + 1]
  /\ CASE pc[c] = "suspendedStart" ->
          /\ vendorCalls' = [vendorCalls EXCEPT ![c] =
                 << [request |-> AdaptRequest(callee[c], request[c]),
                     options |-> StreamCallOptions(callee[c], signal[c])] >>]
          /\ adaptCalls' = [adaptCalls EXCEPT ![c] = 1]
          /\ pc' = [pc EXCEPT ![c] = "awaitCreate"]
          /\ UNCHANGED delivered
       [] pc[c] = "suspendedYield" ->
          /\ pc' = [pc EXCEPT ![c] = "awaitEvent"]
          /\ UNCHANGED << vendorCalls, adaptCalls, delivered >>
       [] OTHER ->
          /\ delivered' = [delivered EXCEPT ![c] = Append(@, Done)]
          /\ UNCHANGED << vendorCalls, adaptCalls, pc >>
  /\ UNCHANGED << clientVars, returnVars, completion, providers, clock, heap, generated, callee, request, signal,
                  listener, stream, controllerAborts, streamId, events, caught >>

\* Mutant: the stream id is kept in a field of the provider instance.
CreateResolvesSharedId(c, s) ==
  /\ pc[c] = "awaitCreate"
  /\ stream' = [stream EXCEPT ![c] = s]
  /\ IF callee[c] \in CodeProviders
     THEN /\ streamId' = [d \in Calls |-> generateId(generated)]
          /\ generated' = generated + 1
          /\ listener' = [listener EXCEPT ![c] = signal[c] # "none"]
     ELSE UNCHANGED << streamId, generated, listener >>
  /\ pc' = [pc EXCEPT ![c] = "awaitEvent"]
  /\ UNCHANGED << clientVars, returnVars, completion, providers, clock, heap, callee, request, signal,
                  controllerAborts, vendorCalls, adaptCalls, events, caught,
                  advances, delivered >>

\* The vendor streaming call resolves with stream s: the stream id is
\* generated, the abort listener is registered when a signal was given, and
\* the for-await loop asks for the first event.
CreateResolves(c, s) ==
  /\ pc[c] = "awaitCreate"
  /\ stream' = [stream EXCEPT ![c] = s]
  /\ IF callee[c] \in CodeProviders
     THEN /\ streamId' = [streamId EXCEPT ![c] = generateId(generated)]
          /\ generated' = generated + 1
          /\ listener' = [listener EXCEPT ![c] = signal[c] # "none"]
     ELSE UNCHANGED << streamId, generated, listener >>
  /\ pc' = [pc EXCEPT ![c] = "awaitEvent"]
  /\ UNCHANGED << clientVars, returnVars, completion, providers, clock, heap, callee, request, signal,
                  controllerAborts, vendorCalls, adaptCalls, events, caught,
                  advances, delivered >>

\* Mutant: a failed setup ends the sequence without an error.
CreateRejectsSilently(c, e) ==
  /\ pc[c] = "awaitCreate"
  /\ caught' = [caught EXCEPT ![c] = e]
  /\ delivered' = [delivered EXCEPT ![c] = Append(@, Done)]
  /\ heap' = heap + 2
  /\ pc' = [pc EXCEPT ![c] = "completed"]
  /\ UNCHANGED << clientVars, returnVars, completion, providers, clock, generated, callee, request, signal,
                  listener, stream, controllerAborts, vendorCalls, adaptCalls,
                  streamId, events, advances >>

\* The vendor streaming call rejects with e.
CreateRejects(c, e) ==
  /\ pc[c] = "awaitCreate"
  /\ caught' = [caught EXCEPT ![c] = e]
  /\ delivered' = [delivered EXCEPT ![c] =
         Append(@, Rejected(StreamCatch(callee[c], e, heap + 2)))]
  /\ heap' = heap + 2
  /\ pc' = [pc EXCEPT ![c] = "completed"]
  /\ UNCHANGED << clientVars, returnVars, completion, providers, clock, generated, callee, request, signal,
                  listener, stream, controllerAborts, vendorCalls, adaptCalls,
                  streamId, events, advances >>

\* The vendor stream produces event ev: yield adaptStreamResponse(ev, streamId).
StreamYields(c, ev) ==
  /\ pc[c] = "awaitEvent"
  /\ Len(events[c]) < MaxEvents
  /\ events' = [events EXCEPT ![c] = Append(@, ev)]
  /\ adaptCalls' = [adaptCalls EXCEPT ![c] = @ + 1]
  /\ LET r == AdaptStreamResponse(callee[c], ev, streamId[c], clock)
         e == Thrown("TypeError", r.message, "", "", heap + 1)
     IN IF r.threw
        THEN /\ caught' = [caught EXCEPT ![c] = e]
             /\ delivered' = [delivered EXCEPT ![c] =
                    Append(@, Rejected(StreamCatch(callee[c], e, heap + 2)))]
             /\ heap' = heap + 2
             /\ pc' = [pc EXCEPT ![c] = "completed"]
        ELSE /\ delivered' = [delivered EXCEPT ![c] = Append(@, Yielded(r.value))]
             /\ pc' = [pc EXCEPT ![c] = "suspendedYield"]
             /\ UNCHANGED << caught, heap >>
  /\ UNCHANGED << clientVars, returnVars, completion, providers, clock, generated, callee, request, signal,
                  listener, stream, controllerAborts, vendorCalls, streamId,
                  advances >>

\* The vendor stream ends: the loop and the generator finish.
StreamEnds(c) ==
  /\ pc[c] = "awaitEvent"
  /\ pc' = [pc EXCEPT ![c] = "completed"]
  /\ delivered' = [delivered EXCEPT ![c] = Append(@, Done)]
  /\ UNCHANGED << clientVars, returnVars, completion, providers, clock, heap, generated, callee, request, signal,
                  listener, stream, controllerAborts, vendorCalls, adaptCalls,
                  streamId, events, caught, advances >>

\* The vendor stream fails with e while the loop waits for an event.
StreamThrows(c, e) ==
  /\ pc[c] = "awaitEvent"
  /\ caught' = [caught EXCEPT ![c] = e]
  /\ delivered' = [delivered EXCEPT ![c] =
         Append(@, Rejected(StreamCatch(callee[c], e, heap + 2)))]
  /\ heap' = heap + 2
  /\ pc' = [pc EXCEPT ![c] = "completed"]
  /\ UNCHANGED << clientVars, returnVars, completion, providers, clock, generated, callee, request, signal,
                  listener, stream, controllerAborts, vendorCalls, adaptCalls,
                  streamId, events, advances >>

\* Mutant: the loop is left without closing the vendor stream's iterator.
ReturnWithoutClose(c) ==
  /\ pc[c] \in {"suspendedStart", "suspendedYield"}
  /\ abandoned' = [abandoned EXCEPT ![c] = TRUE]
  /\ delivered' = [delivered EXCEPT ![c] = Append(@, Done)]
  /\ pc' = [pc EXCEPT ![c] = "completed"]
  /\ UNCHANGED << clientVars, vendorReturns, completion, providers, clock, heap,
                  generated, callee, request, signal, listener, stream,
                  controllerAborts, vendorCalls, adaptCalls, streamId, events,
                  caught, advances >>

\* The consumer abandons the sequence: return() on the generator.  Before
\* the first next() the body never runs; at a yield the for-await loop is
\* left, which calls return() on the vendor stream's iterator, and the
\* catch block is not entered.
Return(c) ==
  /\ pc[c] \in {"suspendedStart", "suspendedYield"}
  /\ abandoned' = [abandoned EXCEPT ![c] = TRUE]
  /\ vendorReturns' = [vendorReturns EXCEPT ![c] =
         IF pc[c] = "suspendedYield" THEN @ + 1 ELSE @]
  /\ delivered' = [delivered EXCEPT ![c] = Append(@, Done)]
  /\ pc' = [pc EXCEPT ![c] = "completed"]
  /\ UNCHANGED << clientVars, completion, providers, clock, heap, generated, callee,
                  request, signal, listener, stream, controllerAborts,
                  vendorCalls, adaptCalls, streamId, events, caught, advances >>

\* The caller aborts the signal it passed: the abort event runs the
\* listener registered by streamChatCompletion, if one is registered.
Abort(c) ==
  /\ pc[c] # "idle"
  /\ signal[c] = "active"
  /\ signal' = [signal EXCEPT ![c] = "aborted"]
  /\ controllerAborts' = [controllerAborts EXCEPT ![c] =
         IF listener[c] /\ stream[c] = "withController" THEN @ + 1 ELSE @]
  /\ UNCHANGED << clientVars, returnVars, completion, providers, clock, heap, generated, callee, pc, request,
                  listener, stream, vendorCalls, adaptCalls, streamId, events,
                  caught, advances, delivered >>

\* ---------------------------------------------------------- specification
ChatProviders == providers \cap CodeProviders

Next ==
  \/ \E p \in ChatProviders, req \in Requests, sig \in Signals :
        ChatCompletion(FirstCall, p, req, sig) /\ UNCHANGED clientVars
  \/ \E response \in NativeResponses : ChatResolves(FirstCall, response)
  \/ \E e \in VendorThrowables(heap + 1) : ChatRejects(FirstCall, e)
  \/ \E p \in providers, req \in Requests, sig \in Signals :
        StreamChatCompletion(FirstCall, p, req, sig) /\ UNCHANGED clientVars
  \/ Advance(FirstCall)
  \/ \E s \in Streams : CreateResolves(FirstCall, s)
  \/ \E e \in VendorThrowables(heap + 1) : CreateRejects(FirstCall, e)
  \/ \E ev \in NativeEvents : StreamYields(FirstCall, ev)
  \/ StreamEnds(FirstCall)
  \/ \E e \in VendorThrowables(heap + 1) : StreamThrows(FirstCall, e)
  \/ Abort(FirstCall)
  \/ Return(FirstCall)

Spec == Init /\ [][Next]_vars

SpecAll == InitAll /\ [][Next]_vars

\* A stream whose consumer keeps advancing and whose vendor keeps answering:
\* the vendor's next step, whichever it is.
VendorStep(c) ==
  \/ CreateResolves(c, "plain")
  \/ \E e \in VendorThrowables(heap + 1) : CreateRejects(c, e)
  \/ \E ev \in NativeEvents : StreamYields(c, ev)
  \/ StreamEnds(c)
  \/ \E e \in VendorThrowables(heap + 1) : StreamThrows(c, e)

NextLive ==
  \/ \E p \in ChatProviders, req \in Requests :
        StreamChatCompletion(FirstCall, p, req, "none") /\ UNCHANGED clientVars
  \/ Advance(FirstCall)
  \/ VendorStep(FirstCall)

SpecLive ==
  /\ Init /\ [][NextLive]_vars
  /\ WF_vars(Advance(FirstCall))
  /\ WF_vars(VendorStep(FirstCall))

\* ------------------------------------------------- calls in flight together
\* Two calls on one provider instance, their steps interleaved in any
\* order.  The requests differ in their model, the vendor answers with one
\* of two responses, one of two events, or one error; each vendor stream
\* has at most MaxConcurrentEvents events.
MaxConcurrentEvents == 2

ConcurrentRequests == { ChatCompletionRequest(m, Undefined) : m \in Models }

ConcurrentResponses == { NativeResponse(1, TRUE), NativeResponseVendorFinish }

ConcurrentEvents ==
  { ev \in NativeEvents :
      Len(ev.choices) > 0 /\ ev.choices[1].delta.content # Undefined }

ConcurrentThrowables(oid) == { Thrown("Error", "API rate limit exceeded", "", "", oid) }

\* The provider instance the calls in flight were made on, if any.
SameInstance(p) == \A d \in Calls : pc[d] # "idle" => callee[d] = p

CallStep(c) ==
  \/ \E p \in ChatProviders, req \in ConcurrentRequests :
        SameInstance(p) /\ ChatCompletion(c, p, req, "none") /\ UNCHANGED clientVars
  \/ \E response \in ConcurrentResponses : ChatResolves(c, response)
  \/ \E e \in ConcurrentThrowables(heap + 1) : ChatRejects(c, e)
  \/ \E p \in ChatProviders, req \in ConcurrentRequests :
        SameInstance(p) /\ StreamChatCompletion(c, p, req, "none") /\ UNCHANGED clientVars
  \/ advances[c] < MaxConcurrentEvents + 2 /\ Advance(c)
  \/ CreateResolves(c, "plain")
  \/ \E e \in ConcurrentThrowables(heap + 1) : CreateRejects(c, e)
  \/ \E ev \in ConcurrentEvents :
        Len(events[c]) < MaxConcurrentEvents /\ StreamYields(c, ev)
  \/ StreamEnds(c)
  \/ \E e \in ConcurrentThrowables(heap + 1) : StreamThrows(c, e)

NextConcurrent == \E c \in Calls : CallStep(c)

SpecConcurrent == Init /\ [][NextConcurrent]_vars

\* ------------------------------------------------------------------ Client
\* Keys of a ProviderConfigs object: the recognized vendors and one key the
\* Client does not know.
RecognizedKeys == {"openai", "anthropic", "mistral", "groq"}
ConfigKeys == RecognizedKeys \cup {"cohere"}

\* Configuration objects, as the sequence of their keys in insertion order.
ClientConfigs ==
  { cfg \in UNION { [1..n -> ConfigKeys] : n \in 0..Cardinality(ConfigKeys) } :
      \A i, j \in DOMAIN cfg : i # j => cfg[i] # cfg[j] }

\* Mutant: the constructor tests the four keys in a fixed order.
NewClientFixedOrder(cfg) ==
  SelectSeq(<< "openai", "anthropic", "mistral", "groq" >>,
            LAMBDA k : \E i \in DOMAIN cfg : cfg[i] = k)

\* Mutant: the constructor registers every key of the configuration.
NewClientEveryKey(cfg) == cfg

\* new Client(providerConfigs): one provider per recognized entry present,
\* registered in the order of the entries.
NewClient(cfg) == SelectSeq(cfg, LAMBDA k : k \in RecognizedKeys)

listProviders == registry

\* Mutant: looks the name up in the configuration object.
isProviderConfiguredInConfig(name) == \E i \in DOMAIN config : config[i] = name

isProviderConfigured(name) == \E i \in DOMAIN registry : registry[i] = name

\* Client-level model strings, as their segments between separators.
ClientModels ==
  { << "openai", "gpt-4" >>, << "openai", "gpt-4", "vision" >>,
    << "anthropic", "claude-3-sonnet" >>,
    << "mistral", "llama3-8b-8192" >>,
    << "groq", "llama3-8b-8192" >>, << "groq", "groq", "llama3" >>,
    << "cohere", "command" >>, << "unknown", "model" >> }

\* The model string whose segments are segs.
RECURSIVE Join(_)
Join(segs) ==
  IF Len(segs) = 1 THEN segs[1]
  ELSE segs[1] \o ":" \o Join(Tail(segs))

\* Mutant: const [provider, model] = model.split(":").
parseModelTwoParts(segs) == [provider |-> segs[1], model |-> segs[2]]

\* Split on the first separator only.
parseModel(segs) == [provider |-> Head(segs), model |-> Join(Tail(segs))]

ProviderNotConfiguredError(provider, oid) ==
  Thrown("ProviderNotConfiguredError", "", provider, "PROVIDER_NOT_CONFIGURED", oid)

\* Mutant: create re-yields the provider's sequence from a generator of its own.
GeneratorWrapped(c) == [generator |-> "wrapper"]

\* The sequence object made by call c of streamChatCompletion.
Generator(c) == [generator |-> c]

\* One provider method invocation, as the Client made it.
Invocation(method, provider, req, options) ==
  [method |-> method, provider |-> provider, request |-> req,
   options |-> options]

\* options.signal as the Client may receive it: absent or not yet aborted.
ClientSignals == {"none", "active"}

MaxCreates == 2

\* A provider that is a test double: chatCompletion returns a pending promise.
MockChatCompletion(c, p, req, sig) ==
  /\ pc[c] = "idle"
  /\ callee' = [callee EXCEPT ![c] = p]
  /\ request' = [request EXCEPT ![c] = req]
  /\ signal' = [signal EXCEPT ![c] = sig]
  /\ pc' = [pc EXCEPT ![c] = "chatAwait"]
  /\ UNCHANGED << returnVars, completion, providers, clock, heap, generated, listener, stream,
                  controllerAborts, vendorCalls, adaptCalls, streamId, events,
                  caught, advances, delivered >>

\* What a test double's chatCompletion settles with: mockResolvedValue or
\* mockRejectedValue.
MockOutcome(resolves, oid) ==
  IF resolves
  THEN Resolved(GroqAdaptResponse(NativeResponse(1, TRUE)).value)
  ELSE Rejected(Thrown("Error", "API rate limit exceeded", "", "", oid))

MockChatSettles(c, resolves) ==
  /\ pc[c] = "chatAwait"
  /\ callee[c] \notin CodeProviders
  /\ delivered' = [delivered EXCEPT ![c] = << MockOutcome(resolves, heap + 1) >>]
  /\ heap' = IF resolves THEN heap ELSE heap + 1
  /\ pc' = [pc EXCEPT ![c] = "settled"]
  /\ UNCHANGED << clientVars, returnVars, completion, providers, clock, generated, callee, request,
                  signal, listener, stream, controllerAborts, vendorCalls,
                  adaptCalls, streamId, events, caught, advances >>

\* chat.completions.create(request, options), up to its first await.
ClientCreate(c, segs, flag, sig) ==
  LET original == ChatCompletionRequest(Join(segs), flag)
      parsed == parseModel(segs)
      forwarded == [original EXCEPT !.model = parsed.model]
  IN /\ pc[c] = "idle"
     /\ clientResult[c].type = "pending"
     /\ created < MaxCreates
     /\ created' = created + 1
     /\ received' = [received EXCEPT ![c] = Arguments(segs, flag, sig)]
     /\ UNCHANGED << config, registry >>
     /\ IF ~isProviderConfigured(parsed.provider)
        THEN /\ clientResult' = [clientResult EXCEPT ![c] =
                    Rejected(ProviderNotConfiguredError(parsed.provider, heap + 1))]
             /\ heap' = heap + 1
             /\ UNCHANGED << invocations, returnVars, completion, providers, clock, generated,
                             callee, pc, request, signal, listener, stream,
                             controllerAborts, vendorCalls, adaptCalls,
                             streamId, events, caught, advances, delivered >>
        ELSE IF Truthy(flag)
        THEN /\ invocations' = [invocations EXCEPT ![c] = Append(@,
                    Invocation("streamChatCompletion", parsed.provider, forwarded, sig))]
             /\ StreamChatCompletion(c, parsed.provider, forwarded, sig)
             /\ clientResult' = [clientResult EXCEPT ![c] = Resolved(Generator(c))]
        ELSE /\ invocations' = [invocations EXCEPT ![c] = Append(@,
                    Invocation("chatCompletion", parsed.provider, forwarded, sig))]
             /\ IF parsed.provider \in CodeProviders
                THEN ChatCompletion(c, parsed.provider, forwarded, sig)
                ELSE MockChatCompletion(c, parsed.provider, forwarded, sig)
             /\ UNCHANGED clientResult

\* The awaited chatCompletion settled: create returns its value or rethrows.
ClientSettles(c) ==
  /\ pc[c] = "settled"
  /\ clientResult[c].type = "pending"
  /\ invocations[c] # << >>
  /\ clientResult' = [clientResult EXCEPT ![c] = delivered[c][1]]
  /\ UNCHANGED << config, registry, invocations, created, received, returnVars, completion,
                  providers, clock, heap, generated, callee, pc, request, signal, listener,
                  stream, controllerAborts, vendorCalls, adaptCalls, streamId,
                  events, caught, advances, delivered >>

\* The caller is done with a settled create call; its slot serves the next.
ReleaseCall(c) ==
  /\ clientResult[c].type # "pending"
  /\ callee' = [callee EXCEPT ![c] = "none"]
  /\ pc' = [pc EXCEPT ![c] = "idle"]
  /\ request' = [request EXCEPT ![c] = ChatCompletionRequest("none", Undefined)]
  /\ signal' = [signal EXCEPT ![c] = "none"]
  /\ vendorCalls' = [vendorCalls EXCEPT ![c] = << >>]
  /\ adaptCalls' = [adaptCalls EXCEPT ![c] = 0]
  /\ caught' = [caught EXCEPT ![c] = NoError]
  /\ delivered' = [delivered EXCEPT ![c] = << >>]
  /\ completion' = [completion EXCEPT ![c] = NoCompletion]
  /\ invocations' = [invocations EXCEPT ![c] = << >>]
  /\ clientResult' = [clientResult EXCEPT ![c] = Pending]
  /\ received' = [received EXCEPT ![c] = NoArguments]
  /\ UNCHANGED << config, registry, created, returnVars, providers, clock, heap, generated,
                  listener, stream, controllerAborts, streamId, events,
                  advances >>

\* A Client constructed from any configuration object.
InitClient ==
  /\ config \in ClientConfigs
  /\ registry = NewClient(config)
  /\ providers = { registry[i] : i \in DOMAIN registry }
  /\ created = 0
  /\ InitCalls

NextClient ==
  \/ \E segs \in ClientModels, flag \in {"true", Undefined}, sig \in ClientSignals :
        ClientCreate(FirstCall, segs, flag, sig)
  \/ /\ callee[FirstCall] \in CodeProviders
     /\ \E response \in NativeResponses : ChatResolves(FirstCall, response)
  \/ /\ callee[FirstCall] \in CodeProviders
     /\ \E e \in VendorThrowables(heap + 1) : ChatRejects(FirstCall, e)
  \/ \E resolves \in BOOLEAN : MockChatSettles(FirstCall, resolves)
  \/ ClientSettles(FirstCall)
  \/ ReleaseCall(FirstCall)

SpecClient == InitClient /\ [][NextClient]_vars

\* ------------------------------------------- Anthropic's structured stream
\* Events of the messages stream.  text is the text delta of a
\* content_block_delta, stop_reason the stop reason of a message_delta.
AnthropicEvent(type, text, stop_reason) ==
  [type |-> type, text |-> text, stop_reason |-> stop_reason]

\* The events of the provider test, and a message_delta without stop reason.
AnthropicEvents ==
  { AnthropicEvent("message_start", Undefined, Undefined),
    AnthropicEvent("content_block_start", Undefined, Undefined),
    AnthropicEvent("content_block_delta", "Hello", Undefined),
    AnthropicEvent("content_block_delta", "! How can I help?", Undefined),
    AnthropicEvent("content_block_stop", Undefined, Undefined),
    AnthropicEvent("message_delta", Undefined, "end_turn"),
    AnthropicEvent("message_delta", Undefined, Null),
    AnthropicEvent("message_stop", Undefined, Undefined) }

\* createChunk(id, model, content, finish_reason) at time now.
createChunk(id, model, content, finishReason, now) ==
  [id |-> id,
   object |-> "chat.completion.chunk",
   created |-> now \div 1000,
   model |-> model,
   choices |-> << [index |-> 0,
                   delta |-> [role |-> "assistant", content |-> content,
                              tool_calls |-> Undefined],
                   finish_reason |-> finishReason] >>]

\* Anthropic's stop reasons in the canonical vocabulary.
AnthropicFinishReason(stop_reason) ==
  CASE stop_reason = "end_turn" -> "stop"
    [] stop_reason = "max_tokens" -> "length"
    [] stop_reason = "tool_use" -> "tool_calls"
    [] OTHER -> "stop"

\* Mutant: one chunk per native event, as for the flat vendors.
AnthropicEmitsAlways(ev) == TRUE

\* The events for which a chunk is emitted: incremental content or a
\* terminal finish reason.
AnthropicEmits(ev) ==
  \/ ev.type = "content_block_delta"
  \/ ev.type = "message_delta" /\ ev.stop_reason \notin {Undefined, Null}

\* The chunk emitted for event ev.
AnthropicAdaptStreamEvent(ev, id, model, now) ==
  IF ev.type = "content_block_delta"
  THEN createChunk(id, model, ev.text, Undefined, now)
  ELSE createChunk(id, model, Undefined, AnthropicFinishReason(ev.stop_reason), now)

MaxAnthropicEvents == 4

\* The vendor stream produces event ev: a chunk is yielded for it, or the
\* loop goes on to the next event.
AnthropicStreamEvent(c, ev) ==
  /\ pc[c] = "awaitEvent"
  /\ callee[c] = "anthropic"
  /\ Len(events[c]) < MaxAnthropicEvents
  /\ events' = [events EXCEPT ![c] = Append(@, ev)]
  /\ IF AnthropicEmits(ev)
     THEN /\ delivered' = [delivered EXCEPT ![c] = Append(@, Yielded(
                 AnthropicAdaptStreamEvent(ev, streamId[c], request[c].model, clock)))]
          /\ adaptCalls' = [adaptCalls EXCEPT ![c] = @ + 1]
          /\ pc' = [pc EXCEPT ![c] = "suspendedYield"]
     ELSE UNCHANGED << delivered, adaptCalls, pc >>
  /\ UNCHANGED << clientVars, returnVars, completion, providers, clock, heap, generated, callee,
                  request, signal, listener, stream, controllerAborts,
                  vendorCalls, streamId, caught, advances >>

AnthropicRequests == { ChatCompletionRequest("claude-3-sonnet", "true") }

InitAnthropic == InitWith({"anthropic"})

NextAnthropic ==
  \/ \E req \in AnthropicRequests :
        StreamChatCompletion(FirstCall, "anthropic", req, "none") /\ UNCHANGED clientVars
  \/ Advance(FirstCall)
  \/ CreateResolves(FirstCall, "plain")
  \/ \E e \in VendorThrowables(heap + 1) : CreateRejects(FirstCall, e)
  \/ \E ev \in AnthropicEvents : AnthropicStreamEvent(FirstCall, ev)
  \/ StreamEnds(FirstCall)
  \/ \E e \in VendorThrowables(heap + 1) : StreamThrows(FirstCall, e)

SpecAnthropic == InitAnthropic /\ [][NextAnthropic]_vars

\* The chunks yielded so far by the generator of call c.
Chunks(c) ==
  LET ys == SelectSeq(delivered[c], LAMBDA d : d.type = "chunk")
  IN [i \in DOMAIN ys |-> ys[i].value]

TypeOK ==
  /\ heap \in Nat
  /\ \A c \in Calls : Len(events[c]) <= MaxEvents /\ advances[c] <= MaxAdvances

\* ------------------------------------------------------------ properties
ChatStates == {"chatAwait", "settled"}
StreamStates == {"suspendedStart", "awaitCreate", "awaitEvent",
                 "suspendedYield", "completed"}

IsCanonical(e, p, code) ==
  e.class = "AISuiteError" /\ e.provider = p /\ e.code = code

ApiErrorPrefix(p) ==
  CASE p = "groq" -> "Groq API error: "
    [] p = "mistral" -> "Mistral API error: "
    [] OTHER -> "OpenAI API error: "

StreamingErrorPrefix(p) ==
  CASE p = "groq" -> "Groq streaming error: "
    [] p = "mistral" -> "Mistral streaming error: "
    [] OTHER -> "OpenAI streaming error: "

\* The last settlement handed to the caller of call c.
LastDelivered(c) == delivered[c][Len(delivered[c])]

\* C1: chatCompletion called with request.stream = true rejects with a
\* canonical STREAMING_NOT_SUPPORTED error tagged with the provider's name,
\* and the vendor transport is never invoked during that call.
C1_StreamTrueRejectsWithoutTransport ==
  \A c \in Calls :
    (pc[c] \in ChatStates /\ request[c].stream = "true") =>
      /\ pc[c] = "settled"
      /\ Len(delivered[c]) = 1
      /\ delivered[c][1].type = "rejected"
      /\ IsCanonical(delivered[c][1].error, callee[c], "STREAMING_NOT_SUPPORTED")
      /\ vendorCalls[c] = << >>

C1_Witness ==
  \E c \in Calls :
    /\ pc[c] = "settled" /\ request[c].stream = "true"
    /\ delivered[c][1].type = "rejected"
    /\ delivered[c][1].error.code = "STREAMING_NOT_SUPPORTED"

\* C2: when the vendor transport call of chatCompletion rejects with a value
\* that is not a canonical error, chatCompletion rejects with a canonical
\* API_ERROR tagged with the provider's name whose message is
\* "<Vendor> API error: " followed by the Error's message, or by
\* "Unknown error" when the value is not an Error instance.
C2_TransportRejectionWrapped ==
  \A c \in Calls :
    (pc[c] = "settled" /\ vendorCalls[c] # << >>
       /\ caught[c].class \in {"Error", "string", "object"}) =>
      /\ delivered[c][1].type = "rejected"
      /\ IsCanonical(delivered[c][1].error, callee[c], "API_ERROR")
      /\ delivered[c][1].error.message =
           ApiErrorPrefix(callee[c]) \o
             (IF caught[c].class = "Error" THEN caught[c].message
              ELSE "Unknown error")

C2_Witness ==
  \E c \in Calls :
    /\ pc[c] = "settled" /\ caught[c].class = "object"
    /\ delivered[c][1].error.message = "Groq API error: Unknown error"

\* C3: when the vendor transport call of chatCompletion rejects with a
\* pre-existing canonical error, chatCompletion rejects with that same error
\* object (identity, message, provider tag and code unchanged).
C3_CanonicalErrorRethrown ==
  \A c \in Calls :
    (pc[c] = "settled" /\ vendorCalls[c] # << >>
       /\ caught[c].class = "AISuiteError") =>
      /\ delivered[c][1].type = "rejected"
      /\ delivered[c][1].error = caught[c]

C3_Witness ==
  \E c \in Calls :
    /\ pc[c] = "settled" /\ vendorCalls[c] # << >>
    /\ caught[c].class = "AISuiteError" /\ caught[c].provider # callee[c]
    /\ delivered[c][1].error.code = "CUSTOM_ERROR"

\* What adaptStreamResponse of provider p makes of native event ev, written
\* out field by field: the id of the stream, the vendor's model naming, and
\* for each choice the delta and finish reason of the event.
ImageOf(p, ev, id, c) ==
  /\ c.id = id
  /\ c.object = "chat.completion.chunk"
  /\ c.model = (IF p = "groq" THEN "groq:llama3-8b-8192" ELSE "llama3-8b-8192")
  /\ Len(c.choices) = (IF p = "groq" THEN Len(ev.choices) ELSE 1)
  /\ \A i \in DOMAIN c.choices :
        /\ c.choices[i].index = ev.choices[i].index
        /\ c.choices[i].delta.content = ev.choices[i].delta.content
        /\ c.choices[i].delta.tool_calls = ev.choices[i].delta.tool_calls
        /\ c.choices[i].finish_reason = ev.choices[i].finish_reason

\* C4: any failure while consuming streamChatCompletion, at setup or after
\* k >= 0 chunks, reaches the consumer as a canonical STREAMING_ERROR tagged
\* with the provider's name, with message "<Vendor> streaming error: "
\* followed by the Error's message or by "Unknown error" for a non-Error
\* value; the k chunks yielded before are the images of the first k events.
C4_StreamFailureIsStreamingError ==
  \A c \in Calls :
    (pc[c] = "completed" /\ caught[c] # NoError) =>
      LET k == Len(Chunks(c)) IN
      /\ Len(delivered[c]) > k
      /\ \A i \in 1..k : delivered[c][i].type = "chunk"
      /\ delivered[c][k + 1].type = "rejected"
      /\ IsCanonical(delivered[c][k + 1].error, callee[c], "STREAMING_ERROR")
      /\ delivered[c][k + 1].error.message =
           StreamingErrorPrefix(callee[c]) \o
             (IF caught[c].class \in {"Error", "TypeError", "AISuiteError"}
              THEN caught[c].message ELSE "Unknown error")
      /\ k <= Len(events[c])
      /\ \A i \in 1..k : ImageOf(callee[c], events[c][i], streamId[c], Chunks(c)[i])

C4_Witness ==
  \E c \in Calls :
    /\ pc[c] = "completed" /\ caught[c].class = "AISuiteError"
    /\ Len(Chunks(c)) = 2
    /\ delivered[c][3].error.code = "STREAMING_ERROR"

\* C5: when the vendor streaming call fails before any chunk was produced,
\* the first next() rejects with the canonical error; the sequence never
\* completes as an empty sequence in that case.
C5_SetupFailureSurfacesOnFirstAdvance ==
  \A c \in Calls :
    (pc[c] \in StreamStates /\ stream[c] = "none" /\ caught[c] # NoError) =>
      /\ advances[c] >= 1
      /\ Len(delivered[c]) >= 1
      /\ delivered[c][1].type = "rejected"
      /\ delivered[c][1].error.class = "AISuiteError"
      /\ Chunks(c) = << >>

C5_Witness ==
  \E c \in Calls :
    /\ pc[c] = "completed" /\ stream[c] = "none" /\ caught[c].class = "Error"
    /\ advances[c] = 1
    /\ delivered[c][1].type = "rejected"

\* C6: when the vendor streaming call or the vendor stream throws a canonical
\* error, the consumer of the chunk sequence receives that same error object
\* with its original code, not a new STREAMING_ERROR.
C6_StreamCanonicalErrorPreserved ==
  \A c \in Calls :
    (pc[c] = "completed" /\ caught[c].class = "AISuiteError") =>
      \E i \in DOMAIN delivered[c] :
        delivered[c][i].type = "rejected" /\ delivered[c][i].error = caught[c]

NativeIds == { ev.id : ev \in NativeEvents }

GeneratedIds == { GenIds[i] : i \in DOMAIN GenIds }

\* Streams whose vendor streaming call has resolved.
ResolvedStreams(ps) ==
  { c \in Calls : callee[c] \in ps /\ stream[c] # "none" }

ContentOf(x) ==
  IF Len(x.choices) = 0 THEN ""
  ELSE IF x.choices[1].delta.content = Undefined THEN ""
  ELSE x.choices[1].delta.content

RECURSIVE ConcatContent(_)
ConcatContent(xs) ==
  IF xs = << >> THEN "" ELSE ContentOf(Head(xs)) \o ConcatContent(Tail(xs))

\* A stream of call c that was consumed to completion.
ConsumedToCompletion(c) ==
  /\ pc[c] = "completed" /\ caught[c] = NoError
  /\ delivered[c] # << >> /\ LastDelivered(c).type = "done"

\* C8: a Groq or Mistral vendor stream of n native events consumed to
\* completion yields exactly n chunks, the k-th chunk being the adaptation of
\* the k-th native event, so that the concatenated delta.content of the
\* chunks equals the concatenated delta content of the native events.
C8_OneChunkPerEventInOrder ==
  \A c \in Calls :
    (callee[c] \in CodeProviders /\ ConsumedToCompletion(c)) =>
      /\ Len(Chunks(c)) = Len(events[c])
      /\ \A k \in DOMAIN events[c] :
           ImageOf(callee[c], events[c][k], streamId[c], Chunks(c)[k])
      /\ ConcatContent(Chunks(c)) = ConcatContent(events[c])

C8_Witness ==
  \E c \in Calls :
    /\ callee[c] = "mistral" /\ ConsumedToCompletion(c)
    /\ Len(events[c]) = 3
    /\ ConcatContent(Chunks(c)) = "Hello! How can I help?Hello"

\* The consumer returned the sequence of call c before its first next():
\* the body of the generator never ran.
ReturnedBeforeStart(c) == abandoned[c] /\ events[c] = << >>

\* C9: calling streamChatCompletion only constructs the sequence: no adapter
\* call and no vendor transport call happens before the consumer's first
\* next(); the vendor streaming call is issued during the first advance.
C9_NoVendorCallBeforeFirstAdvance ==
  \A c \in Calls :
    /\ (pc[c] \in StreamStates /\ advances[c] = 0) =>
         /\ pc[c] = "suspendedStart" \/ ReturnedBeforeStart(c)
         /\ vendorCalls[c] = << >> /\ adaptCalls[c] = 0
    /\ (pc[c] \in StreamStates /\ advances[c] >= 1 /\ ~ReturnedBeforeStart(c)) =>
         (pc[c] # "suspendedStart" /\ Len(vendorCalls[c]) = 1)

C9_Witness ==
  \E c \in Calls :
    /\ pc[c] = "awaitCreate" /\ advances[c] = 1 /\ Len(vendorCalls[c]) = 1

\* C10: if the caller's signal fires at any moment of the call's lifetime
\* and the vendor stream exposes controller.abort, that hook is invoked.
C10_AbortAlwaysReachesController ==
  \A c \in Calls :
    (pc[c] \in StreamStates /\ signal[c] = "aborted"
       /\ stream[c] = "withController") =>
      controllerAborts[c] >= 1

\* C12: the vendor model id a provider receives reaches the vendor transport
\* verbatim, from chatCompletion and from streamChatCompletion, also when it
\* contains further separators or the text "groq:".
C12_ModelIdVerbatimToTransport ==
  \A c \in Calls :
    (callee[c] \in CodeProviders /\ vendorCalls[c] # << >>) =>
      vendorCalls[c][1].request.model = request[c].model

\* C17: when the native non-streaming response omits usage, chatCompletion
\* resolves with a canonical response whose usage is all zero; a missing
\* usage never makes chatCompletion fail.
C17_MissingUsageDefaultsToZero ==
  \A c \in Calls :
    (pc[c] = "settled" /\ callee[c] \in CodeProviders
       /\ Len(completion[c].choices) >= 1 /\ ~completion[c].hasUsage) =>
      /\ delivered[c][1].type = "resolved"
      /\ delivered[c][1].value.usage = ZeroUsage

CanonicalFinishReasons == {"stop", "length", "tool_calls", "content_filter", Null}

\* C18: in every canonical response and every canonical chunk each choice's
\* finish_reason is one of stop, length, tool_calls, content_filter, null,
\* whatever finish-reason vocabulary the vendor used.
C18_FinishReasonIsCanonical ==
  \A c \in Calls :
    /\ (pc[c] = "settled" /\ delivered[c][1].type = "resolved") =>
         \A i \in DOMAIN delivered[c][1].value.choices :
           delivered[c][1].value.choices[i].finish_reason \in CanonicalFinishReasons
    /\ \A k \in DOMAIN Chunks(c) :
         \A i \in DOMAIN Chunks(c)[k].choices :
           Chunks(c)[k].choices[i].finish_reason \in CanonicalFinishReasons

\* C19: every chunk emitted by a provider's stream has delta.role equal to
\* "assistant" in every choice, also when the native delta carries no role.
C19_DeltaRoleIsAssistant ==
  \A c \in Calls :
    \A k \in DOMAIN Chunks(c) :
      \A i \in DOMAIN Chunks(c)[k].choices :
        Chunks(c)[k].choices[i].delta.role = "assistant"

\* ------------------------------------------------------ Client properties
\* The create calls whose dispatch reached a provider.
Dispatched(c) == invocations[c] # << >>

\* C11: create splits request.model on the first ':' only: the text before
\* it selects the provider, the provider receives everything after it as
\* model, and every other request field and options are forwarded unchanged.
C11_SplitOnFirstSeparatorOnly ==
  \A c \in Calls :
    Dispatched(c) =>
      LET inv == invocations[c][1]
          original == ChatCompletionRequest(Join(received[c].model), received[c].stream)
      IN /\ inv.provider \in RecognizedKeys
         /\ inv.provider \o ":" \o inv.request.model = original.model
         /\ [inv.request EXCEPT !.model = original.model] = original
         /\ inv.options = received[c].options
         /\ callee[c] = inv.provider
         /\ request[c] = inv.request
         /\ signal[c] \in {inv.options, "aborted"}
         /\ original.model = "openai:gpt-4" =>
              inv.provider = "openai" /\ inv.request.model = "gpt-4"
         /\ original.model = "openai:gpt-4:vision" =>
              inv.provider = "openai" /\ inv.request.model = "gpt-4:vision"

C11_Witness ==
  /\ Dispatched(FirstCall)
  /\ Join(received[FirstCall].model) = "openai:gpt-4:vision"
  /\ received[FirstCall].options = "active"
  /\ request[FirstCall].model = "gpt-4:vision"
  /\ callee[FirstCall] = "openai"

\* C13: a create call whose vendor prefix is not a key of the registry fails
\* with ProviderNotConfigured naming that vendor, and no provider's
\* chatCompletion or streamChatCompletion is invoked.
C13_UnregisteredPrefixRejected ==
  \A c \in Calls :
    (received[c] # NoArguments
       /\ \A i \in DOMAIN registry : registry[i] # received[c].model[1]) =>
      /\ clientResult[c].type = "rejected"
      /\ clientResult[c].error.class = "ProviderNotConfiguredError"
      /\ clientResult[c].error.provider = received[c].model[1]
      /\ invocations[c] = << >>
      /\ pc[c] = "idle"
      /\ callee[c] = "none"

C13_Witness ==
  /\ received[FirstCall].model = << "cohere", "command" >>
  /\ \E i \in DOMAIN config : config[i] = "cohere"
  /\ registry # << >>
  /\ clientResult[FirstCall].type = "rejected"

\* C14: create chooses the provider method by request.stream alone: when
\* true it invokes only streamChatCompletion and returns that very sequence
\* object, not consumed; otherwise it invokes only chatCompletion and
\* returns its awaited response.  One method is invoked, exactly once.
C14_MethodChosenByStreamFlag ==
  \A c \in Calls :
    Dispatched(c) =>
      /\ Len(invocations[c]) = 1
      /\ IF received[c].stream = "true"
         THEN /\ invocations[c][1].method = "streamChatCompletion"
              /\ pc[c] = "suspendedStart"
              /\ advances[c] = 0
              /\ clientResult[c].type = "resolved"
              /\ clientResult[c].value = [generator |-> c]
         ELSE /\ invocations[c][1].method = "chatCompletion"
              /\ pc[c] \in ChatStates
              /\ clientResult[c].type # "pending" =>
                   pc[c] = "settled" /\ clientResult[c] = delivered[c][1]

C14_Witness ==
  /\ Dispatched(FirstCall)
  /\ received[FirstCall].stream = "true"
  /\ callee[FirstCall] = "anthropic"
  /\ clientResult[FirstCall].type = "resolved"

\* The elements of a sequence.
Range(seq) == { seq[i] : i \in DOMAIN seq }

\* seq lists its elements in the order in which they appear in cfg.
InOrderOf(seq, cfg) ==
  \A i, j \in DOMAIN seq :
    i < j => \E a, b \in DOMAIN cfg : a < b /\ cfg[a] = seq[i] /\ cfg[b] = seq[j]

\* C15: listProviders() returns exactly the recognized vendor keys whose
\* entry is present in the configuration object, in the order of those
\* entries, for every subset and ordering; a Client built from {} returns
\* the empty sequence.
C15_ListProvidersInConfigOrder ==
  /\ Range(listProviders) = Range(config) \cap RecognizedKeys
  /\ Len(listProviders) = Cardinality(Range(listProviders))
  /\ InOrderOf(listProviders, config)
  /\ config = << >> => listProviders = << >>

C15_Witness ==
  /\ config = << "groq", "cohere", "openai" >>
  /\ listProviders = << "groq", "openai" >>
  /\ created > 0

\* Names a caller may ask isProviderConfigured about.
ProviderNames == ConfigKeys \cup {"unknown"}

\* isProviderConfigured(k) is true exactly when k is in listProviders().
ConfiguredIffListed ==
  \A k \in ProviderNames : isProviderConfigured(k) <=> k \in Range(listProviders)

\* C16 as stated: the registry is fixed at construction, and at every point
\* isProviderConfigured(k) is true exactly when k is in listProviders(),
\* which is exactly when the configuration had an entry for k.
C16_RegistryFixedEntryIffRegistered ==
  /\ [](ConfiguredIffListed /\
         \A k \in ProviderNames : isProviderConfigured(k) <=> k \in Range(config))
  /\ [][registry' = registry]_vars

\* C16 amended: as above, the configuration entry deciding for the
\* recognized vendor keys only; any other name is never configured.
C16_RegistryFixedRecognizedEntryIffRegistered ==
  /\ [](ConfiguredIffListed /\
         \A k \in ProviderNames :
           isProviderConfigured(k) <=> (k \in RecognizedKeys /\ k \in Range(config)))
  /\ [][registry' = registry]_vars

C16_Witness ==
  /\ created = MaxCreates
  /\ isProviderConfigured("groq")
  /\ ~isProviderConfigured("openai")
  /\ clientResult[FirstCall].type = "rejected"
  /\ clientResult[FirstCall].error.class = "AISuiteError"

\* ------------------------------------------------ Anthropic's properties
\* The events that carry incremental content or a terminal finish reason.
CarriesPayload(ev) ==
  \/ ev.type = "content_block_delta"
  \/ ev.type = "message_delta" /\ ev.stop_reason = "end_turn"

Carriers(evs) == SelectSeq(evs, CarriesPayload)

\* The concatenation of the text deltas of a sequence of events.
RECURSIVE ConcatText(_)
ConcatText(evs) ==
  IF evs = << >> THEN ""
  ELSE (IF Head(evs).type = "content_block_delta" THEN Head(evs).text ELSE "")
         \o ConcatText(Tail(evs))

\* C20: the chunks of an Anthropic stream are a flattening of its native
\* events: a chunk is emitted only for a content_block_delta or a
\* message_delta with a stop reason, structural events emit none, and the
\* chunks keep the order of their events, so that the concatenated
\* delta.content equals the concatenation of the text deltas.
C20_AnthropicChunksFlattenEvents ==
  \A c \in Calls :
    callee[c] = "anthropic" =>
      LET carriers == Carriers(events[c])
      IN /\ Len(Chunks(c)) = Len(carriers)
         /\ \A k \in DOMAIN carriers :
              /\ Len(Chunks(c)[k].choices) = 1
              /\ IF carriers[k].type = "content_block_delta"
                 THEN /\ Chunks(c)[k].choices[1].delta.content = carriers[k].text
                      /\ Chunks(c)[k].choices[1].finish_reason = Undefined
                 ELSE /\ Chunks(c)[k].choices[1].delta.content = Undefined
                      /\ Chunks(c)[k].choices[1].finish_reason = "stop"
         /\ ConcatContent(Chunks(c)) = ConcatText(events[c])

C20_Witness ==
  /\ callee[FirstCall] = "anthropic"
  /\ Len(events[FirstCall]) = 4
  /\ events[FirstCall][1].type = "message_start"
  /\ events[FirstCall][4].type = "message_delta"
  /\ Len(Chunks(FirstCall)) = 3
  /\ ConcatContent(Chunks(FirstCall)) = "Hello! How can I help?"
  /\ ConsumedToCompletion(FirstCall)

\* ------------------------------------------------- provider properties
\* A settlement without the identity of its error object.
Outcome(d) == [d EXCEPT !.error.oid = 0]

\* What call c delivers when it runs alone, computed from its own request,
\* its own vendor outcome and its own stream id.
AloneChat(c) ==
  IF caught[c] # NoError
  THEN Outcome(Rejected(ChatCatch(callee[c], caught[c], 0)))
  ELSE Resolved(AdaptResponse(callee[c], completion[c], clock).value)

AloneChunk(c, i) ==
  AdaptStreamResponse(callee[c], events[c][i], streamId[c], clock).value

\* Everything the provider keeps for call c.
CallState(c) ==
  << callee[c], pc[c], request[c], signal[c], listener[c], stream[c],
     controllerAborts[c], vendorCalls[c], adaptCalls[c], streamId[c],
     events[c], caught[c], advances[c], delivered[c], completion[c],
     abandoned[c], vendorReturns[c] >>

\* C21: calls interleaved on one provider instance do not interfere: the
\* chunks of each stream are the adaptations of its own vendor events, in
\* order, all under its own stream id, which no other stream carries and
\* which never changes; the vendor call of each call carries its own
\* request; the outcome of each non-streaming call is the one computed from
\* its own request and vendor outcome; and a step of one call changes
\* nothing that belongs to another call.
C21_CallsDoNotInterfere ==
  /\ [](\A c \in Calls :
          /\ \A i \in DOMAIN vendorCalls[c] :
                vendorCalls[c][i].request = AdaptRequest(callee[c], request[c])
          /\ pc[c] \in StreamStates =>
                /\ Len(Chunks(c)) <= Len(events[c])
                /\ \A i \in DOMAIN Chunks(c) : Chunks(c)[i] = AloneChunk(c, i)
                /\ \A i \in DOMAIN Chunks(c) : Chunks(c)[i].id = streamId[c]
                /\ \A d \in Calls \ {c} :
                      streamId[c] # Undefined => streamId[d] # streamId[c]
          /\ pc[c] = "settled" =>
                /\ Len(delivered[c]) = 1
                /\ Outcome(delivered[c][1]) = AloneChat(c))
  /\ [][\A c \in Calls :
          /\ streamId[c] # Undefined => streamId'[c] = streamId[c]
          /\ CallState(c)' # CallState(c) =>
                \A d \in Calls \ {c} : CallState(d)' = CallState(d)]_vars

\* Two streams in flight together on one instance, each with two chunks
\* delivered from different vendor events and for different requests.
C21_Witness ==
  /\ callee["c1"] = callee["c2"]
  /\ request["c1"] # request["c2"]
  /\ pc["c1"] = "suspendedYield" /\ pc["c2"] = "suspendedYield"
  /\ Len(Chunks("c1")) = 2 /\ Len(Chunks("c2")) = 2
  /\ events["c1"] # events["c2"]

\* C22: errors are never retried: one chatCompletion call invokes the
\* vendor transport at most once (exactly once when request.stream is not
\* true), and one consumed streamChatCompletion sequence issues the vendor
\* streaming call exactly once, whether the vendor call succeeds or fails.
C22_VendorCalledAtMostOnce ==
  \A c \in Calls :
    callee[c] \in CodeProviders =>
      /\ Len(vendorCalls[c]) <= 1
      /\ pc[c] \in ChatStates =>
           Len(vendorCalls[c]) = (IF request[c].stream = "true" THEN 0 ELSE 1)
      /\ pc[c] \in StreamStates =>
           Len(vendorCalls[c]) =
             (IF advances[c] = 0 \/ ReturnedBeforeStart(c) THEN 0 ELSE 1)

C22_Witness ==
  /\ pc[FirstCall] = "settled"
  /\ caught[FirstCall].class = "Error"
  /\ delivered[FirstCall][1].type = "rejected"
  /\ Len(vendorCalls[FirstCall]) = 1

\* The sampling parameters of the canonical request that the model carries.
SamplingParameters == {"temperature", "max_tokens", "top_p"}

\* C24: adaptRequest passes through every sampling parameter the caller
\* set: the native request built for Groq and for Mistral carries the same
\* value for each of them.
C24_SamplingParametersPassedThrough ==
  \A c \in Calls :
    (callee[c] \in CodeProviders /\ vendorCalls[c] # << >>) =>
      \A param \in SamplingParameters :
        /\ param \in DOMAIN vendorCalls[c][1].request
        /\ vendorCalls[c][1].request[param] = request[c][param]

\* C25: created of every canonical chunk is in whole unix seconds: for a
\* chunk built at wall-clock time t milliseconds, created = floor(t / 1000).
C25_CreatedInUnixSeconds ==
  \A c \in Calls :
    \A k \in DOMAIN Chunks(c) : Chunks(c)[k].created = clock \div 1000

\* C26: adapters never throw on missing optional fields: a native response
\* or event without usage, with an empty choices list, or with a delta
\* without content is adapted, and never turns into an API_ERROR or a
\* STREAMING_ERROR at the provider.
C26_AdaptersNeverThrow ==
  \A c \in Calls :
    /\ (pc[c] = "settled" /\ completion[c] # NoCompletion) =>
         delivered[c][1].type = "resolved"
    /\ pc[c] \in StreamStates => Len(Chunks(c)) = Len(events[c])
    /\ caught[c].class # "TypeError"

\* C27: the options object given with a non-streaming request is handed by
\* the provider to the vendor transport call as its options argument.
C27_OptionsReachVendorTransport ==
  \A c \in Calls :
    (pc[c] \in ChatStates /\ vendorCalls[c] # << >> /\ signal[c] # "none") =>
      vendorCalls[c][1].options # Undefined

\* Property name of record r read as JavaScript reads it: undefined when
\* the object has no such property.
Property(r, name) == IF name \in DOMAIN r THEN r[name] ELSE Undefined

\* C23: when the native response message carries tool_calls, the canonical
\* response returned by chatCompletion has choices[0].message.tool_calls
\* equal to them, for Mistral as well as Groq.
C23_ToolCallsForwarded ==
  \A c \in Calls :
    (pc[c] = "settled" /\ callee[c] \in CodeProviders
       /\ completion[c] = NativeResponseToolCalls) =>
      /\ delivered[c][1].type = "resolved"
      /\ Property(delivered[c][1].value.choices[1].message, "tool_calls")
           = completion[c].choices[1].message.tool_calls

\* ------------------------------------------------ stream life properties
\* C28: once a sequence has completed or raised STREAMING_ERROR, every
\* further advance reports done without a chunk, without pulling a native
\* event and without a new vendor call; and when the vendor stream is
\* finite and the consumer keeps advancing, the sequence reaches that
\* finished state.
C28_ForwardOnlyAndFinishes ==
  /\ [][\A c \in Calls :
          pc[c] = "completed" =>
            /\ pc'[c] = "completed"
            /\ events'[c] = events[c]
            /\ vendorCalls'[c] = vendorCalls[c]
            /\ \/ delivered'[c] = delivered[c]
               \/ /\ Len(delivered'[c]) = Len(delivered[c]) + 1
                  /\ advances'[c] = advances[c] + 1
                  /\ SubSeq(delivered'[c], 1, Len(delivered[c])) = delivered[c]
                  /\ delivered'[c][Len(delivered'[c])].type = "done"]_vars
  /\ \A c \in Calls : (pc[c] = "suspendedStart") ~> (pc[c] = "completed")

C28_Witness ==
  /\ pc[FirstCall] = "completed"
  /\ Len(Chunks(FirstCall)) = 2
  /\ caught[FirstCall].class = "Error"
  /\ Len(delivered[FirstCall]) = 4
  /\ LastDelivered(FirstCall).type = "done"

\* C29: the native events pulled from the vendor stream never outnumber
\* the advances the consumer requested; when the consumer abandons the
\* sequence after k chunks, no native event beyond the k-th is pulled and
\* the vendor stream is closed.
C29_DemandDriven ==
  /\ [](\A c \in Calls :
          /\ Len(events[c]) <= advances[c]
          /\ abandoned[c] =>
               /\ pc[c] = "completed"
               /\ Len(events[c]) = Len(Chunks(c))
               /\ vendorReturns[c] = (IF stream[c] = "none" THEN 0 ELSE 1))
  /\ [][\A c \in Calls :
          abandoned[c] =>
            events'[c] = events[c] /\ vendorCalls'[c] = vendorCalls[c]]_vars

C29_Witness ==
  /\ abandoned[FirstCall]
  /\ Len(Chunks(FirstCall)) = 2
  /\ Len(events[FirstCall]) = 2
  /\ vendorReturns[FirstCall] = 1
  /\ advances[FirstCall] = 3

\* The positions at which the vendor stream of a call is live.
LiveStates == {"awaitEvent", "suspendedYield"}

\* C30: the abort hook of a vendor stream is invoked only while that stream
\* is live: after the sequence has completed, failed or been abandoned, an
\* abort of the caller's signal does not call controller.abort, and each
\* stream's hook is invoked at most once.
C30_AbortHookOnlyWhileLive ==
  /\ [][\A c \in Calls :
          controllerAborts'[c] # controllerAborts[c] => pc[c] \in LiveStates]_vars
  /\ [](\A c \in Calls : controllerAborts[c] <= 1)

====
